---- MODULE Spec2Model ----
(***************************************************************************)
(* Model of the configuration decode-and-migrate pipeline of               *)
(* src/config/models/mod.rs: the two-pass Configuration::deserialize and   *)
(* Configuration::migrate.                                                 *)
(*                                                                         *)
(* Option<T> is modelled as a set with at most one element: None is {} and *)
(* Some(x) is {x}.                                                         *)
(***************************************************************************)
EXTENDS Naturals, Sequences, FiniteSets, TLC

VARIABLES doc, stage, cfg, err, pre, results, warned

vars == <<doc, stage, cfg, err, pre, results, warned>>

(***************************************************************************)
(* Bounds                                                                  *)
(***************************************************************************)
\* longest pre-existing proxies list of an input document
MaxProxies == 1
\* most fixed sections of one document that carry deprecated internal fields
\* their own migration rewrites
MaxLegacy == 1
\* most fixed sections of one document that are malformed
MaxBadSections == 1
\* most calls of migrate on one value
MaxRuns == 2

(***************************************************************************)
(* Option                                                                  *)
(***************************************************************************)
None == {}

Some(x) == {x}

Unwrap(o) == CHOOSE x \in o : TRUE

\* Option<bool>::unwrap_or_default
UnwrapOrDefault(o) == IF o = None THEN FALSE ELSE Unwrap(o)

\* Option::take leaves None behind; the taken value is the old one
Take(o) == None

(***************************************************************************)
(* Schema                                                                  *)
(***************************************************************************)
FixedSections == {"build", "tools", "hooks", "watch", "serve", "clean", "proxies"}

ProxyAlias == "proxy"

\* the fields of the core section
CoreFields == {"dist"}

\* root keys no schema slot matches
UnknownKeys == {"foo", "bar"}

RootKeys == FixedSections \cup {ProxyAlias} \cup CoreFields \cup UnknownKeys

\* state of a section's own deprecated internal fields: none left, some that
\* the section's migration rewrites, some it cannot rewrite
MigStates == {"current", "legacy", "bad"}

Proxy(b, r, w, i, n) ==
  [backend |-> b, rewrite |-> r, ws |-> w, insecure |-> i, no_system_proxy |-> n]

\* the entry a user may have written into the proxies list; it equals the
\* entry synthesized from a lone proxy_backend = "b1"
ProxyPool == {Proxy("b1", None, FALSE, FALSE, FALSE)}

SeqsUpTo(S, n) == UNION {[1..m -> S] : m \in 0..n}

DefaultSection(s) ==
  CASE s = "serve" -> [mig |-> "current", proxy_backend |-> None,
                       proxy_rewrite |-> None, proxy_ws |-> None,
                       proxy_insecure |-> None, proxy_no_system_proxy |-> None]
    [] s = "clean" -> [mig |-> "current", dist |-> None]
    [] s = "proxies" -> [mig |-> "current", entries |-> <<>>]
    [] OTHER -> [mig |-> "current"]

DefaultCore == [mig |-> "current", dist |-> None]

DefaultConfiguration ==
  [core |-> DefaultCore,
   build |-> DefaultSection("build"),
   tools |-> DefaultSection("tools"),
   hooks |-> DefaultSection("hooks"),
   watch |-> DefaultSection("watch"),
   serve |-> DefaultSection("serve"),
   clean |-> DefaultSection("clean"),
   proxies |-> DefaultSection("proxies")]

NoErr == [kind |-> "none", field |-> ""]

(***************************************************************************)
(* Input documents                                                         *)
(***************************************************************************)
\* a raw section: its decoded value, and whether the raw table has a field
\* the section's closed schema rejects
RawSection(v, b) == [bad |-> b, val |-> v]

\* a raw scalar of the source format
RawStr(s) == [t |-> "str", v |-> s]

RawInt(s) == [t |-> "int", v |-> s]

ServeValues(m) ==
  {[mig |-> m, proxy_backend |-> b, proxy_rewrite |-> r, proxy_ws |-> w,
    proxy_insecure |-> i, proxy_no_system_proxy |-> n] :
     b \in {None, Some("b1")}, r \in {None, Some("r1")},
     w \in {None, Some(TRUE), Some(FALSE)},
     i \in {None, Some(TRUE)}, n \in {None, Some(TRUE)}}

CleanValues(m) == {[mig |-> m, dist |-> d] : d \in {None, Some("d1")}}

ProxiesValues(m, n) == {[mig |-> m, entries |-> e] : e \in SeqsUpTo(ProxyPool, n)}

\* one value per section that differs from the section's default
SampleValue(s) ==
  CASE s = "serve" -> [mig |-> "current", proxy_backend |-> Some("b1"),
                       proxy_rewrite |-> None, proxy_ws |-> Some(TRUE),
                       proxy_insecure |-> None, proxy_no_system_proxy |-> None]
    [] s = "clean" -> [mig |-> "current", dist |-> Some("d1")]
    [] s = "proxies" -> [mig |-> "current",
                         entries |-> <<Proxy("b2", Some("r1"), TRUE, FALSE, FALSE)>>]
    [] OTHER -> [mig |-> "legacy"]

MkDoc(secs, alias, dist, foo, bar) ==
  [k \in RootKeys |->
     IF k \in FixedSections THEN secs[k]
     ELSE IF k = ProxyAlias THEN alias
     ELSE IF k = "dist" THEN dist
     ELSE IF k = "foo" THEN foo ELSE bar]

\* documents that vary the root keys: which are present, the alias, unknown
\* keys, ill-typed core fields, malformed sections
IsShapeDoc(d) ==
  \E sh \in [FixedSections -> {"absent", "ok", "bad"}] :
    /\ Cardinality({s \in FixedSections : sh[s] = "bad"}) <= MaxBadSections
    /\ \E alias \in {None, Some(RawSection(SampleValue("proxies"), FALSE))},
          dist \in {None, Some(RawStr("d1")), Some(RawStr("d2")), Some(RawInt("7"))},
          foo \in {None, Some(RawStr("x"))},
          bar \in {None, Some(RawInt("7"))} :
         d = MkDoc([s \in FixedSections |->
                      IF sh[s] = "absent" THEN None
                      ELSE Some(RawSection(SampleValue(s), sh[s] = "bad"))],
                   alias, dist, foo, bar)

\* well-formed documents that vary the contents of the sections. At most one
\* section holds fields its migration cannot rewrite: migrate stops at the
\* first such section, so a second one is never looked at.
IsContentDoc(d) ==
  \E legacy \in SUBSET FixedSections, failing \in FixedSections \cup {"none"} :
    /\ Cardinality(legacy) <= MaxLegacy
    /\ failing \notin legacy
    /\ LET m == [s \in FixedSections |->
                   IF s = failing THEN "bad"
                   ELSE IF s \in legacy THEN "legacy" ELSE "current"]
       IN \E sv \in ServeValues(m["serve"]), cv \in CleanValues(m["clean"]),
             pv \in ProxiesValues(m["proxies"], MaxProxies),
             dist \in {None, Some(RawStr("d2"))} :
            d = MkDoc([s \in FixedSections |->
                         Some(RawSection(
                           IF s = "serve" THEN sv ELSE IF s = "clean" THEN cv
                           ELSE IF s = "proxies" THEN pv ELSE [mig |-> m[s]], FALSE))],
                      None, dist, None, None)

(***************************************************************************)
(* Configuration::deserialize                                              *)
(***************************************************************************)
Present(d) == {k \in DOMAIN d : d[k] # None}

\* InnerCfg without the alias attribute on proxies
InnerKeys_NoAlias == FixedSections

\* the named fields of InnerCfg, the alias of proxies included
InnerKeys == FixedSections \cup {ProxyAlias}

\* InnerCfg.extras: every root key that is no named field of InnerCfg, as a
\* serde_json::Value
ToValue(raw) ==
  IF "t" \in DOMAIN raw
  THEN [t |-> IF raw.t = "str" THEN "String" ELSE "Number", v |-> raw.v]
  ELSE [t |-> "Object", v |-> raw.val]

Extras(d) == [k \in Present(d) \ InnerKeys |-> ToValue(Unwrap(d[k]))]

\* errors InnerCfg::deserialize can return; the first defect in document
\* order is the one reported
InnerErrs(d) ==
  {[kind |-> "field_decode", field |-> k] :
     k \in {x \in Present(d) \cap InnerKeys : Unwrap(d[x]).bad}}
  \cup (IF d["proxies"] # None /\ d[ProxyAlias] # None
        THEN {[kind |-> "duplicate_field", field |-> "proxies"]} ELSE {})

\* the field of InnerCfg named s
InnerField(d, s) ==
  IF d[s] # None THEN Unwrap(d[s]).val
  ELSE IF s = "proxies" /\ d[ProxyAlias] # None THEN Unwrap(d[ProxyAlias]).val
  ELSE DefaultSection(s)

\* errors Core::deserialize can return on the extras; the map is a HashMap,
\* so the first defect in its iteration order is the one reported
CoreErrs(extras) ==
  {[kind |-> "unknown_field", field |-> k] : k \in DOMAIN extras \ CoreFields}
  \cup {[kind |-> "invalid_type", field |-> k] :
          k \in {x \in DOMAIN extras \cap CoreFields : extras[x].t # "String"}}

CoreDeserialize(extras) ==
  [mig |-> "current",
   dist |-> IF "dist" \in DOMAIN extras THEN Some(extras["dist"].v) ELSE None]

\* the conversion forgetting the decoded core
FromCoreInner_DefaultCore(core, d) ==
  [core |-> DefaultCore,
   build |-> InnerField(d, "build"),
   tools |-> InnerField(d, "tools"),
   hooks |-> InnerField(d, "hooks"),
   watch |-> InnerField(d, "watch"),
   serve |-> InnerField(d, "serve"),
   clean |-> InnerField(d, "clean"),
   proxies |-> InnerField(d, "proxies")]

\* From<(Core, InnerCfg)> for Configuration
FromCoreInner(core, d) ==
  [core |-> core,
   build |-> InnerField(d, "build"),
   tools |-> InnerField(d, "tools"),
   hooks |-> InnerField(d, "hooks"),
   watch |-> InnerField(d, "watch"),
   serve |-> InnerField(d, "serve"),
   clean |-> InnerField(d, "clean"),
   proxies |-> InnerField(d, "proxies")]

\* deserialize dropping the error of the second pass
DeserializeErrs_InnerOnly(d) == InnerErrs(d)

\* the errors deserialize can return for d; empty when it succeeds
DeserializeErrs(d) ==
  IF InnerErrs(d) # {} THEN InnerErrs(d) ELSE CoreErrs(Extras(d))

DeserializeValue(d) == FromCoreInner(CoreDeserialize(Extras(d)), d)

Deserialize ==
  /\ stage = "input"
  /\ IF DeserializeErrs(doc) # {}
     THEN /\ \E e \in DeserializeErrs(doc) : err' = e
          /\ stage' = "decode_failed"
          /\ UNCHANGED cfg
     ELSE /\ cfg' = DeserializeValue(doc)
          /\ err' = NoErr
          /\ stage' = "decoded"
  /\ UNCHANGED <<doc, pre, results, warned>>

(***************************************************************************)
(* Configuration::migrate                                                  *)
(***************************************************************************)
SectionOrder == <<"core", "tools", "hooks", "proxies", "clean", "build", "watch", "serve">>

\* a section's own migrate: rewrites its deprecated internal fields with a
\* warning, or fails on a value it cannot rewrite
SectionMigrate(name, sec) ==
  CASE sec.mig = "legacy" ->
         [ok |-> TRUE, sec |-> [sec EXCEPT !.mig = "current"], warn |-> <<name>>]
    [] sec.mig = "bad" -> [ok |-> FALSE, sec |-> sec, warn |-> <<>>]
    [] OTHER -> [ok |-> TRUE, sec |-> sec, warn |-> <<>>]

\* the per-section steps carrying on after a failure
RECURSIVE RunSections_NoAbort(_, _, _)
RunSections_NoAbort(c, i, w) ==
  IF i > Len(SectionOrder) THEN [cfg |-> c, ok |-> TRUE, failed |-> "", warn |-> w]
  ELSE LET name == SectionOrder[i]
           r == SectionMigrate(name, c[name])
           c2 == [c EXCEPT ![name] = r.sec]
           rest == RunSections_NoAbort(c2, i + 1, w \o r.warn)
       IN IF r.ok THEN rest
          ELSE [cfg |-> rest.cfg, ok |-> FALSE, failed |-> name, warn |-> rest.warn]

\* the per-section steps from the i-th on; `?` returns at the first failure
RECURSIVE RunSections(_, _, _)
RunSections(c, i, w) ==
  IF i > Len(SectionOrder) THEN [cfg |-> c, ok |-> TRUE, failed |-> "", warn |-> w]
  ELSE LET name == SectionOrder[i]
           r == SectionMigrate(name, c[name])
           c2 == [c EXCEPT ![name] = r.sec]
       IN IF r.ok THEN RunSections(c2, i + 1, w \o r.warn)
          ELSE [cfg |-> c2, ok |-> FALSE, failed |-> name, warn |-> w \o r.warn]

\* the clean.dist step reading the field without taking it
CleanDistStep_NoTake(c) ==
  IF c.clean.dist # None
  THEN [cfg |-> [c EXCEPT !.core.dist = Some(Unwrap(c.clean.dist))],
        warn |-> <<"clean.dist">>]
  ELSE [cfg |-> c, warn |-> <<>>]

\* the clean.dist step keeping a core.dist that is already set
CleanDistStep_KeepExplicit(c) ==
  IF c.clean.dist # None
  THEN [cfg |-> [c EXCEPT !.clean.dist = Take(@),
                          !.core.dist = IF @ = None THEN Some(Unwrap(c.clean.dist))
                                        ELSE @],
        warn |-> <<"clean.dist">>]
  ELSE [cfg |-> c, warn |-> <<>>]

\* handle the old clean.dist field
CleanDistStep(c) ==
  IF c.clean.dist # None
  THEN [cfg |-> [c EXCEPT !.clean.dist = Take(@),
                          !.core.dist = Some(Unwrap(c.clean.dist))],
        warn |-> <<"clean.dist">>]
  ELSE [cfg |-> c, warn |-> <<>>]

\* the entry built from the legacy single-proxy fields
LegacyProxy(serve) ==
  Proxy(Unwrap(serve.proxy_backend),
        serve.proxy_rewrite,
        UnwrapOrDefault(serve.proxy_ws),
        UnwrapOrDefault(serve.proxy_insecure),
        UnwrapOrDefault(serve.proxy_no_system_proxy))

\* the proxy step reading proxy_backend without taking it
ProxyStep_NoTake(c) ==
  IF c.serve.proxy_backend # None
  THEN [cfg |-> [c EXCEPT !.serve.proxy_rewrite = Take(@),
                          !.proxies.entries = Append(@, LegacyProxy(c.serve))],
        warn |-> <<"serve.proxy">>]
  ELSE [cfg |-> c, warn |-> <<>>]

\* the proxy step skipping an entry the list already holds
ProxyStep_Dedup(c) ==
  IF c.serve.proxy_backend # None
  THEN [cfg |-> [c EXCEPT
                   !.serve.proxy_backend = Take(@),
                   !.serve.proxy_rewrite = Take(@),
                   !.proxies.entries =
                      IF \E i \in 1..Len(@) : @[i] = LegacyProxy(c.serve) THEN @
                      ELSE Append(@, LegacyProxy(c.serve))],
        warn |-> <<"serve.proxy">>]
  ELSE [cfg |-> c, warn |-> <<>>]

\* the proxy step taking proxy_rewrite before it looks at proxy_backend
ProxyStep_TakesRewrite(c) ==
  IF c.serve.proxy_backend # None
  THEN [cfg |-> [c EXCEPT
                   !.serve.proxy_backend = Take(@),
                   !.serve.proxy_rewrite = Take(@),
                   !.proxies.entries = Append(@, LegacyProxy(c.serve))],
        warn |-> <<"serve.proxy">>]
  ELSE [cfg |-> [c EXCEPT !.serve.proxy_rewrite = Take(@)], warn |-> <<>>]

\* handle single proxy setting
ProxyStep(c) ==
  IF c.serve.proxy_backend # None
  THEN [cfg |-> [c EXCEPT
                   !.serve.proxy_backend = Take(@),
                   !.serve.proxy_rewrite = Take(@),
                   !.proxies.entries = Append(@, LegacyProxy(c.serve))],
        warn |-> <<"serve.proxy">>]
  ELSE [cfg |-> c, warn |-> <<>>]

MigrateResult(c) ==
  LET s == RunSections(c, 1, <<>>)
  IN IF ~s.ok
     THEN [cfg |-> s.cfg, result |-> "err",
           err |-> [kind |-> "migration", field |-> s.failed], warn |-> s.warn]
     ELSE LET a == CleanDistStep(s.cfg)
              b == ProxyStep(a.cfg)
          IN [cfg |-> b.cfg, result |-> "ok", err |-> NoErr,
              warn |-> s.warn \o a.warn \o b.warn]

Migrate ==
  /\ stage = "decoded"
  /\ Len(results) < MaxRuns
  /\ LET r == MigrateResult(cfg)
     IN /\ cfg' = r.cfg
        /\ err' = r.err
        /\ results' = Append(results, r.result)
        /\ warned' = r.warn
  /\ pre' = cfg
  /\ UNCHANGED <<doc, stage>>

(***************************************************************************)
(* Specification                                                           *)
(***************************************************************************)
Init ==
  /\ IsShapeDoc(doc) \/ IsContentDoc(doc)
  /\ stage = "input"
  /\ cfg = DefaultConfiguration
  /\ err = NoErr
  /\ pre = DefaultConfiguration
  /\ results = <<>>
  /\ warned = <<>>

Next == Deserialize \/ Migrate

Spec == Init /\ [][Next]_vars

(***************************************************************************)
(* Properties                                                              *)
(***************************************************************************)
Decoded == stage = "decoded" /\ results = <<>>

\* the first call of migrate has returned
FirstRun == Len(results) = 1

FirstRunOk == FirstRun /\ results[1] = "ok"

Count(seq, x) == Cardinality({i \in 1..Len(seq) : seq[i] = x})

Companions == {"proxy_rewrite", "proxy_ws", "proxy_insecure", "proxy_no_system_proxy"}

LegacyProxyFields == {"proxy_backend"} \cup Companions

\* C1: after a successful migrate of a configuration with serve.proxy_backend
\* present and an empty proxies list, proxies holds exactly the one entry built
\* from the legacy values (absent companions as none/false) and all five
\* serve.proxy_* fields are absent.
C1_LegacySingleProxyCleared ==
  (FirstRunOk /\ pre.serve.proxy_backend # None /\ pre.proxies.entries = <<>>)
    => /\ cfg.proxies.entries =
            <<Proxy(Unwrap(pre.serve.proxy_backend),
                    pre.serve.proxy_rewrite,
                    IF pre.serve.proxy_ws = None THEN FALSE
                    ELSE Unwrap(pre.serve.proxy_ws),
                    IF pre.serve.proxy_insecure = None THEN FALSE
                    ELSE Unwrap(pre.serve.proxy_insecure),
                    IF pre.serve.proxy_no_system_proxy = None THEN FALSE
                    ELSE Unwrap(pre.serve.proxy_no_system_proxy))>>
       /\ \A f \in LegacyProxyFields : cfg.serve[f] = None

\* C2: a second migrate of a value on which the first one succeeded succeeds,
\* leaves the value equal to the value after the first run and emits no
\* warning.
C2_MigrateIdempotent ==
  (Len(results) = 2 /\ results[1] = "ok")
    => /\ results[2] = "ok"
       /\ cfg = pre
       /\ warned = <<>>

\* a second run on a value whose first run fired both cross-section steps and
\* a per-section rewrite
C2_Witness ==
  /\ Len(results) = 2
  /\ results[1] = "ok"
  /\ Unwrap(doc["serve"]).val.proxy_backend # None
  /\ Unwrap(doc["clean"]).val.dist # None
  /\ Unwrap(doc["tools"]).val.mig = "legacy"

\* the root keys of the document that are neither a fixed-section name (nor
\* its alias) nor a field of core
StrayKeys == {k \in DOMAIN doc : doc[k] # None} \ (FixedSections \cup {"proxy"} \cup {"dist"})

\* the document has no defect besides its stray keys
NoOtherDefect ==
  /\ \A s \in FixedSections \cup {"proxy"} : doc[s] # None => ~Unwrap(doc[s]).bad
  /\ ~(doc["proxies"] # None /\ doc["proxy"] # None)
  /\ doc["dist"] # None => Unwrap(doc["dist"]).t = "str"

\* C3 (as stated): decoding a document with a stray root key fails with an
\* unknown-field error naming that key.
C3_UnknownFieldNamesEveryKey ==
  stage # "input"
    => \A k \in StrayKeys :
         stage = "decode_failed" /\ err = [kind |-> "unknown_field", field |-> k]

\* C3 (amended): decoding a document with a stray root key fails and produces
\* no Configuration; the error is an unknown-field error naming that key when
\* the key is the only defect of the document.
C3_ClosedSchema ==
  (stage # "input" /\ StrayKeys # {})
    => /\ stage = "decode_failed"
       /\ cfg = DefaultConfiguration
       /\ results = <<>>
       /\ err.kind # "none"
       /\ \A k \in StrayKeys :
            (NoOtherDefect /\ StrayKeys = {k})
              => err = [kind |-> "unknown_field", field |-> k]

\* decoding was refused because of the one stray key of the document
C3_Witness ==
  /\ stage = "decode_failed"
  /\ StrayKeys = {"foo"}
  /\ NoOtherDefect
  /\ doc["dist"] # None
  /\ err = [kind |-> "unknown_field", field |-> "foo"]

\* C4: after a successful migrate of a configuration with clean.dist = v and
\* core.dist absent, core.dist = v, clean.dist is absent, and the clean.dist
\* deprecation warning was emitted exactly once.
C4_CleanDistMigrated ==
  (FirstRunOk /\ pre.clean.dist # None /\ pre.core.dist = None)
    => /\ cfg.core.dist = pre.clean.dist
       /\ cfg.clean.dist = None
       /\ Count(warned, "clean.dist") = 1

C4_Witness ==
  /\ FirstRunOk
  /\ pre.clean.dist = Some("d1")
  /\ pre.core.dist = None
  /\ cfg.core.dist = Some("d1")

\* C5: after a successful migrate of a configuration with n proxies entries
\* and a legacy serve.proxy_backend, proxies has n+1 entries: the n original
\* ones in their order, then the one built from the legacy fields, also when
\* an identical entry was already there.
C5_ProxyAppendOnly ==
  (FirstRunOk /\ pre.serve.proxy_backend # None)
    => LET n == Len(pre.proxies.entries)
       IN /\ Len(cfg.proxies.entries) = n + 1
          /\ \A i \in 1..n : cfg.proxies.entries[i] = pre.proxies.entries[i]
          /\ cfg.proxies.entries[n + 1] =
               Proxy(Unwrap(pre.serve.proxy_backend),
                     pre.serve.proxy_rewrite,
                     pre.serve.proxy_ws = Some(TRUE),
                     pre.serve.proxy_insecure = Some(TRUE),
                     pre.serve.proxy_no_system_proxy = Some(TRUE))

\* the appended entry equals the entry that was already in the list
C5_Witness ==
  /\ FirstRunOk
  /\ pre.serve.proxy_backend # None
  /\ Len(pre.proxies.entries) = 1
  /\ Len(cfg.proxies.entries) = 2
  /\ cfg.proxies.entries[1] = cfg.proxies.entries[2]

Position(s) == CHOOSE i \in 1..8 :
  <<"core", "tools", "hooks", "proxies", "clean", "build", "watch", "serve">>[i] = s

ValidDoc == StrayKeys = {} /\ NoOtherDefect

\* C7: decoding a valid document with a core field at the root succeeds;
\* core holds the field's value, and each fixed section is the one decoded
\* from its key (or the section's default).
C7_FlattenFidelity ==
  (stage # "input" /\ results = <<>> /\ ValidDoc /\ doc["dist"] # None)
    => /\ stage = "decoded"
       /\ cfg.core.dist = Some(Unwrap(doc["dist"]).v)
       /\ \A s \in FixedSections :
            cfg[s] = IF doc[s] # None THEN Unwrap(doc[s]).val
                     ELSE IF s = "proxies" /\ doc["proxy"] # None
                          THEN Unwrap(doc["proxy"]).val
                     ELSE DefaultSection(s)

C7_Witness ==
  /\ Decoded
  /\ doc["dist"] = Some(RawStr("d1"))
  /\ cfg.core.dist = Some("d1")
  /\ doc["serve"] # None
  /\ cfg.serve.proxy_backend = Some("b1")

\* the document with the key proxy renamed to proxies
Renamed == [doc EXCEPT !["proxies"] = doc["proxy"], !["proxy"] = None]

\* C8: a document using the key proxy in place of proxies decodes as the same
\* document using proxies does: to the same Configuration, or failing for
\* the same reasons; proxy is never rejected as an unknown field.
C8_AliasDecodesAlike ==
  (stage # "input" /\ results = <<>> /\ doc["proxy"] # None /\ doc["proxies"] = None)
    => /\ err # [kind |-> "unknown_field", field |-> "proxy"]
       /\ stage = "decoded" <=> DeserializeErrs(Renamed) = {}
       /\ stage = "decoded" => cfg = DeserializeValue(Renamed)
       /\ stage = "decoded" => cfg.proxies = Unwrap(doc["proxy"]).val
       /\ stage = "decode_failed" => err \in DeserializeErrs(Renamed)

C8_Witness ==
  /\ Decoded
  /\ doc["proxy"] # None
  /\ doc["proxies"] = None
  /\ doc["dist"] # None
  /\ Len(cfg.proxies.entries) = 1

\* C9: after a successful migrate of a configuration with clean.dist = a and
\* core.dist = b, core.dist = a and clean.dist is absent; with clean.dist
\* absent, migrate leaves core.dist as it was.
C9_CleanDistPrecedence ==
  FirstRun
    => /\ (results[1] = "ok" /\ pre.clean.dist # None /\ pre.core.dist # None)
            => (cfg.core.dist = pre.clean.dist /\ cfg.clean.dist = None)
       /\ pre.clean.dist = None
            => (cfg.core.dist = pre.core.dist /\ Count(warned, "clean.dist") = 0)

\* the legacy value replaced a different explicit core.dist
C9_Witness ==
  /\ FirstRunOk
  /\ pre.clean.dist = Some("d1")
  /\ pre.core.dist = Some("d2")
  /\ cfg.core.dist = Some("d1")

\* C10: when serve.proxy_backend is absent, migrate appends nothing to
\* proxies, emits no proxy warning and leaves the four companion fields as
\* they were, whichever of them are present.
C10_ProxyStepGuard ==
  (FirstRun /\ pre.serve.proxy_backend = None)
    => /\ cfg.proxies.entries = pre.proxies.entries
       /\ Count(warned, "serve.proxy") = 0
       /\ \A f \in Companions : cfg.serve[f] = pre.serve[f]
       /\ cfg.serve.proxy_backend = None

\* a successful migrate of a value with every companion but no proxy_backend
C10_Witness ==
  /\ FirstRunOk
  /\ pre.serve.proxy_backend = None
  /\ \A f \in Companions : pre.serve[f] # None /\ cfg.serve[f] # None

====
